---- MODULE Spec2Model ----
(***************************************************************************)
(* Model of the two Soroban orchestrator contracts of this repository:     *)
(*   contracts/soroswap-auth  (SoroswapAuth::swap)                          *)
(*   contracts/defindex-zap   (DeFindexSimple::deposit)                     *)
(* together with the external collaborators they call: the asset ledgers   *)
(* (token contracts), the Soroswap router and the DeFindex vault.           *)
(*                                                                         *)
(* One invocation is one host transaction.  Each entry point is modelled   *)
(* as one action that threads a "frame" through the statements of the      *)
(* handler in source order; the frame carries the working ledger, the      *)
(* working instance storage, the log of calls made so far, the outstanding *)
(* delegated-authorization declarations and the status of the invocation.  *)
(* When the invocation ends the host commits the frame (success) or drops  *)
(* it (failure).                                                           *)
(***************************************************************************)
EXTENDS Integers, Sequences, FiniteSets, TLC

VARIABLES balance, storage, ctor, phase, inv, log, decls, result, pre, ninv

vars == <<balance, storage, ctor, phase, inv, log, decls, result, pre, ninv>>

-----------------------------------------------------------------------------
(* Bounds of the model *)

\* largest amount a caller passes (amounts range over -MaxNegative .. MaxAmount)
MaxAmount == 2
\* most negative amount a caller passes is -MaxNegative
MaxNegative == 1
\* largest output amount the router reports in its reply
MaxOut == 1
\* longest amounts sequence the router replies with
MaxReplyLen == 2
\* initial balance of every caller in every token
InitBal == 2
\* initial balance of the pair in every token
Liquidity == 1
\* number of steps (invocations, lifetime periods passing) in one behaviour
MaxInvocations == 2
\* periods an instance stays readable after its time-to-live was extended
InstanceBump == 1

-----------------------------------------------------------------------------
(* Addresses *)

Callers == {"alice", "bob"}
Tokens == {"A", "B"}
Orch == "soroswap_auth"
Zap == "defindex_zap"
RouterAddr == "router"
VaultAddr == "vault"
PairAddr == "pair"
Holders == Callers \cup {Orch, Zap, PairAddr, VaultAddr}
NoAddr == "none"

Amounts == (0 - MaxNegative) .. MaxAmount

NoOutcome == [ok |-> FALSE, amounts |-> <<>>]

\* what the router can answer to swap_exact_tokens_for_tokens(amount_in, ..):
\* a failure (no pair, no liquidity, deadline, minimum output) or a sequence
\* of amounts along the path: the input amount at each hop before the last
\* and the realized output as last element (the empty sequence included)
RouterOutcomes(amount_in) ==
    {NoOutcome}
      \cup {[ok |-> TRUE, amounts |-> <<>>]}
      \cup {[ok |-> TRUE,
             amounts |-> [i \in 1 .. n |-> IF i = n THEN out ELSE amount_in]] :
                n \in 1 .. MaxReplyLen, out \in 0 .. MaxOut}

-----------------------------------------------------------------------------
(* Frames and the call log *)

Event(ev, by, contract, fn, args, ok) ==
    [ev |-> ev, by |-> by, contract |-> contract, fn |-> fn, args |-> args, ok |-> ok]

NewFrame(self, bal, store) ==
    [st |-> "run", err |-> "", self |-> self, signer |-> NoAddr, bal |-> bal,
     store |-> store, log |-> <<>>, outstanding |-> {}, issued |-> <<>>,
     router |-> NoAddr, vault |-> NoAddr, underlying |-> NoAddr,
     pair |-> NoAddr, amounts |-> <<>>, ret |-> 0]

Fail(f, e) == [f EXCEPT !.st = "failed", !.err = e]

Emit(f, e) == [f EXCEPT !.log = Append(@, e)]

-----------------------------------------------------------------------------
(* Host platform: authentication, delegated authorization, asset ledger *)

\* caller.require_auth(): the invocation goes on only if the principal
\* supplied a proof of intent for it; the proof covers the calls made on the
\* principal's behalf further down the same invocation tree
RequireAuth(f, who, authed) ==
    IF f.st # "run" THEN f
    ELSE IF authed
         THEN [Emit(f, Event("require_auth", f.self, who, "require_auth", <<>>, TRUE))
                  EXCEPT !.signer = who]
         ELSE Fail(Emit(f, Event("require_auth", f.self, who, "require_auth", <<>>, FALSE)),
                   "AuthenticationFailed")

\* the check of one declaration against one call: contract, function name
\* and the whole argument tuple must be equal
DeclMatches(d, call) ==
    /\ d.contract = call.contract
    /\ d.fn_name = call.fn_name
    /\ d.args = call.args

\* e.authorize_as_current_contract(entries): the declarations are outstanding
\* for the next contract call made by the current contract
AuthorizeAsCurrentContract(f, d) ==
    IF f.st # "run" THEN f
    ELSE [Emit(f, Event("declare", f.self, d.contract, d.fn_name, d.args, TRUE))
             EXCEPT !.outstanding = @ \cup {d}, !.issued = Append(@, d)]

\* token.transfer(from, to, amount) invoked by contract `by`: `from` must have
\* authorized the call (it is the invoker itself, or the authenticated
\* principal of this invocation, or an outstanding declaration matches the
\* call exactly and is used up by it); the ledger rejects a negative amount
\* and an insufficient balance
LedgerTransfer(f, by, token, from, to, amount) ==
    IF f.st # "run" THEN f
    ELSE LET call == [contract |-> token, fn_name |-> "transfer",
                      args |-> <<from, to, amount>>]
             matching == {d \in f.outstanding : DeclMatches(d, call)}
             authorized == from = by \/ from = f.signer \/ matching # {}
             funded == amount >= 0 /\ f.bal[token][from] >= amount
             e == Event("transfer", by, token, "transfer", call.args, authorized /\ funded)
         IN IF ~authorized THEN Fail(Emit(f, e), "AuthorizationRejected")
            ELSE IF ~funded THEN Fail(Emit(f, e), "ExternalCallFailed")
            ELSE [Emit(f, e) EXCEPT
                    !.bal = [@ EXCEPT ![token] =
                               [h \in Holders |->
                                  @[h] - (IF h = from THEN amount ELSE 0)
                                       + (IF h = to THEN amount ELSE 0)]],
                    !.outstanding = IF from = by \/ from = f.signer THEN @
                                    ELSE @ \ matching]

-----------------------------------------------------------------------------
(* External collaborators: router and vault *)

\* the liquidity pair of two assets (one pair in this model)
PairFor(token_a, token_b) == PairAddr

\* router.router_pair_for(token_a, token_b); the router knows no pair of an
\* asset with itself
RouterPairFor(f, router, token_a, token_b) ==
    IF f.st # "run" THEN f
    ELSE LET ok == token_a # token_b
             g == Emit(f, Event("pair_for", f.self, router, "router_pair_for",
                                <<token_a, token_b>>, ok))
         IN IF ok THEN [g EXCEPT !.pair = PairFor(token_a, token_b)]
            ELSE Fail(g, "ExternalCallFailed")

\* router.swap_exact_tokens_for_tokens(amount_in, amount_out_min, path, to,
\* deadline): the router moves amount_in of path[1] from `to` into the pair,
\* the pair pays the last reported amount of path[2] to `to`, and the router
\* returns the amounts.  Declarations of the invoker are outstanding for this
\* call only.
RouterSwap(f, router, amount_in, amount_out_min, path, to, deadline, outcome) ==
    IF f.st # "run" THEN f
    ELSE LET args == <<amount_in, amount_out_min, path, to, deadline>>
             accepted == outcome.ok /\ path[1] # path[2]
             out == IF outcome.amounts = <<>> THEN 0
                    ELSE outcome.amounts[Len(outcome.amounts)]
             pair == PairFor(path[1], path[2])
             f0 == [f EXCEPT !.log = <<>>]
             g1 == LedgerTransfer(f0, router, path[1], to, pair, amount_in)
             g2 == IF out < amount_out_min THEN Fail(g1, "ExternalCallFailed")
                   ELSE LedgerTransfer(g1, pair, path[2], pair, to, out)
             g == IF accepted THEN g2 ELSE Fail(f0, "ExternalCallFailed")
             e == Event("router_swap", f.self, router, "swap_exact_tokens_for_tokens",
                        args, g.st = "run")
         IN [g EXCEPT !.log = f.log \o <<e>> \o g.log,
                      !.outstanding = {},
                      !.amounts = IF g.st = "run" THEN outcome.amounts ELSE <<>>]

\* vault.deposit(amounts, min_shares, from, invest): the vault pulls
\* amounts[1] of its asset from `from`
VaultDeposit(f, vault, asset, amounts, min_shares, from, invest, vaultOk) ==
    IF f.st # "run" THEN f
    ELSE LET args == <<amounts, min_shares, from, invest>>
             f0 == [f EXCEPT !.log = <<>>]
             g == IF vaultOk THEN LedgerTransfer(f0, vault, asset, from, vault, amounts[1])
                  ELSE Fail(f0, "ExternalCallFailed")
             e == Event("vault_deposit", f.self, vault, "deposit", args, g.st = "run")
         IN [g EXCEPT !.log = f.log \o <<e>> \o g.log, !.outstanding = {}]

-----------------------------------------------------------------------------
(* Instance storage of the two contracts (module storage of each crate) *)

SetSoroswapRouterAddress(store, a) == [store EXCEPT !.router = a]
SetVaultAddress(store, a) == [store EXCEPT !.vault = a]
SetUnderlyingAssetAddress(store, a) == [store EXCEPT !.underlying = a]
GetSoroswapRouterAddress(f) == f.store.router
GetVaultAddress(f) == f.store.vault
GetUnderlyingAssetAddress(f) == f.store.underlying

\* the instance storage of a contract being created: no address stored, a
\* full time-to-live
EmptyStore ==
    [router |-> NoAddr, vault |-> NoAddr, underlying |-> NoAddr, ttl |-> InstanceBump]

\* the persisted configuration is readable while its time-to-live is not used up
Expired(store) == store.ttl = 0

\* the guard at the start of every entry point: an expired configuration is
\* a failure of its own, a live one gets its time-to-live extended
ExtendInstanceTtl(f) ==
    IF f.st # "run" THEN f
    ELSE IF Expired(f.store)
         THEN Fail(Emit(f, Event("extend_ttl", f.self, f.self, "extend_instance_ttl",
                                 <<>>, FALSE)), "ConfigurationUnavailable")
         ELSE [Emit(f, Event("extend_ttl", f.self, f.self, "extend_instance_ttl", <<>>, TRUE))
                  EXCEPT !.store.ttl = InstanceBump]

\* a read of one persisted configuration address: an expired configuration
\* is unreadable, never an empty or default address
StorageGet(f, key) ==
    IF f.st # "run" THEN f
    ELSE IF Expired(f.store)
         THEN Fail(Emit(f, Event("config_read", f.self, f.self, key, <<>>, FALSE)),
                   "ConfigurationUnavailable")
         ELSE Emit(f, Event("config_read", f.self, f.self, key, <<>>, TRUE))

-----------------------------------------------------------------------------
(* contracts/soroswap-auth *)

U64_MAX == "u64::MAX"

\* slip: the comparison turned around, so that a negative amount passes
CheckNonnegativeAmountFlipped(amount) ==
    IF amount > 0 THEN "NegativeNotAllowed" ELSE "Ok"

CheckNonnegativeAmount(amount) ==
    IF amount < 0 THEN "NegativeNotAllowed" ELSE "Ok"

\* `check(...)?` : an Err ends the invocation with that error
Try(f, r) ==
    IF f.st # "run" THEN f
    ELSE IF r = "Ok"
         THEN Emit(f, Event("check_amount", f.self, f.self, "check_nonnegative_amount", <<>>, TRUE))
         ELSE Fail(Emit(f, Event("check_amount", f.self, f.self, "check_nonnegative_amount",
                                 <<>>, FALSE)), r)

\* slip: first() instead of last()
UnwrapFirst(f) ==
    IF f.st # "run" THEN f
    ELSE IF f.amounts = <<>> THEN Fail(f, "Panic")
    ELSE [f EXCEPT !.ret = f.amounts[1]]

\* swap_result.last().unwrap()
UnwrapLast(f) ==
    IF f.st # "run" THEN f
    ELSE IF f.amounts = <<>> THEN Fail(f, "Panic")
    ELSE [f EXCEPT !.ret = f.amounts[Len(f.amounts)]]

SoroswapAuthConstructor(router_address) ==
    SetSoroswapRouterAddress(EmptyStore, router_address)

\* slip: swap without caller.require_auth()
SwapRequireAuthMissing(f, caller, authed) == f

SwapRequireAuth(f, caller, authed) == RequireAuth(f, caller, authed)

\* slip: swap without the amount check
SwapCheckAmountMissing(f, amount) == f

SwapCheckAmount(f, amount) == Try(f, CheckNonnegativeAmount(amount))

\* slip: swap without extend_instance_ttl
SwapExtendTtlMissing(f) == f

SwapExtendTtl(f) == ExtendInstanceTtl(f)

SwapCustodyTransfer(f, caller, token_in, amount) ==
    LedgerTransfer(f, f.self, token_in, caller, f.self, amount)

\* slip: the setter called where the getter is meant
SwapLoadRouterStores(f) ==
    LET g == StorageGet(f, "router")
    IN IF g.st # "run" THEN g
       ELSE [g EXCEPT !.router = GetSoroswapRouterAddress(g),
                      !.store = SetSoroswapRouterAddress(g.store, g.signer)]

SwapLoadRouter(f) ==
    LET g == StorageGet(f, "router")
    IN IF g.st # "run" THEN g ELSE [g EXCEPT !.router = GetSoroswapRouterAddress(g)]

SwapPairFor(f, token_in, token_out) == RouterPairFor(f, f.router, token_in, token_out)

\* slip: the declaration names the orchestrator as recipient instead of the pair
SwapDeclarationWrongRecipient(token_in, caller, pair_address, amount) ==
    [contract |-> token_in, fn_name |-> "transfer",
     args |-> <<caller, Orch, amount>>, sub_invocations |-> {}]

\* the SubContractInvocation built by swap
SwapDeclaration(token_in, caller, pair_address, amount) ==
    [contract |-> token_in, fn_name |-> "transfer",
     args |-> <<caller, pair_address, amount>>, sub_invocations |-> {}]

\* slip: the declaration names the contract, which holds the custody, as sender
SwapAuthorizeFromCustody(f, caller, token_in, amount) ==
    AuthorizeAsCurrentContract(f, SwapDeclaration(token_in, f.self, f.pair, amount))

\* slip: the declaration is issued twice
SwapAuthorizeTwice(f, caller, token_in, amount) ==
    AuthorizeAsCurrentContract(
        AuthorizeAsCurrentContract(f, SwapDeclaration(token_in, caller, f.pair, amount)),
        SwapDeclaration(token_in, caller, f.pair, amount))

SwapAuthorize(f, caller, token_in, amount) ==
    AuthorizeAsCurrentContract(f, SwapDeclaration(token_in, caller, f.pair, amount))

\* slip: the router is called through its try_ client and a failure is
\* swallowed (the sub-call is rolled back, the invocation goes on with 0)
SwapRouterCallSwallows(f, caller, token_in, token_out, amount, outcome) ==
    LET g == RouterSwap(f, f.router, amount, 0, <<token_in, token_out>>, caller, U64_MAX,
                        outcome)
    IN IF f.st # "run" \/ g.st = "run" THEN g
       ELSE [g EXCEPT !.st = "run", !.err = "", !.bal = f.bal, !.amounts = <<0>>]

SwapRouterCall(f, caller, token_in, token_out, amount, outcome) ==
    RouterSwap(f, f.router, amount, 0, <<token_in, token_out>>, caller, U64_MAX, outcome)

SwapReturn(f) == UnwrapLast(f)

\* slip: the amount is checked before the caller is authenticated
SwapBeforeRouterValidatesFirst(bal, store, caller, token_in, token_out, amount, authed) ==
    LET f0 == NewFrame(Orch, bal, store)
        f1 == SwapCheckAmount(f0, amount)
        f2 == SwapRequireAuth(f1, caller, authed)
        f3 == SwapExtendTtl(f2)
        f4 == SwapCustodyTransfer(f3, caller, token_in, amount)
        f5 == SwapLoadRouter(f4)
        f6 == SwapPairFor(f5, token_in, token_out)
    IN SwapAuthorize(f6, caller, token_in, amount)

\* SoroswapAuth::swap, statement by statement
SwapBeforeRouter(bal, store, caller, token_in, token_out, amount, authed) ==
    LET f0 == NewFrame(Orch, bal, store)
        f1 == SwapRequireAuth(f0, caller, authed)
        f2 == SwapCheckAmount(f1, amount)
        f3 == SwapExtendTtl(f2)
        f4 == SwapCustodyTransfer(f3, caller, token_in, amount)
        f5 == SwapLoadRouter(f4)
        f6 == SwapPairFor(f5, token_in, token_out)
    IN SwapAuthorize(f6, caller, token_in, amount)

SwapFrame(bal, store, caller, token_in, token_out, amount, authed, outcome) ==
    LET f7 == SwapBeforeRouter(bal, store, caller, token_in, token_out, amount, authed)
        f8 == SwapRouterCall(f7, caller, token_in, token_out, amount, outcome)
    IN SwapReturn(f8)

-----------------------------------------------------------------------------
(* contracts/defindex-zap *)

\* slip: `<=` for `<`, zero is turned away as well
ZapCheckNonnegativeAmountStrict(amount) ==
    IF amount <= 0 THEN "NegativeNotAllowed" ELSE "Ok"

ZapCheckNonnegativeAmount(amount) ==
    IF amount < 0 THEN "NegativeNotAllowed" ELSE "Ok"

DeFindexSimpleConstructor(vault_address, router_address, underlying_asset) ==
    SetUnderlyingAssetAddress(
        SetSoroswapRouterAddress(SetVaultAddress(EmptyStore, vault_address), router_address),
        underlying_asset)

DepositRequireAuth(f, caller, authed) == RequireAuth(f, caller, authed)

DepositCheckAmount(f, amount) == Try(f, ZapCheckNonnegativeAmount(amount))

\* slip: deposit without extend_instance_ttl
DepositExtendTtlMissing(f) == f

DepositExtendTtl(f) == ExtendInstanceTtl(f)

DepositLoadConfig(f) ==
    LET g == StorageGet(StorageGet(f, "underlying"), "router")
    IN IF g.st # "run" THEN g
       ELSE [g EXCEPT !.underlying = GetUnderlyingAssetAddress(g),
                      !.router = GetSoroswapRouterAddress(g)]

\* slip: the router is called through its try_ client and a failure is
\* swallowed (the sub-call is rolled back, the invocation goes on with 0)
DepositRouterCallSwallows(f, caller, token_in, amount, outcome) ==
    LET g == RouterSwap(f, f.router, amount, 0, <<token_in, f.underlying>>, caller, U64_MAX,
                        outcome)
    IN IF f.st # "run" \/ g.st = "run" THEN g
       ELSE [g EXCEPT !.st = "run", !.err = "", !.bal = f.bal, !.amounts = <<0>>]

\* slip: the path built from the underlying asset to the input asset
DepositRouterCallReversedPath(f, caller, token_in, amount, outcome) ==
    RouterSwap(f, f.router, amount, 0, <<f.underlying, token_in>>, caller, U64_MAX, outcome)

\* slip: the contract itself named as recipient of the swap output
DepositRouterCallToSelf(f, caller, token_in, amount, outcome) ==
    RouterSwap(f, f.router, amount, 0, <<token_in, f.underlying>>, f.self, U64_MAX, outcome)

DepositRouterCall(f, caller, token_in, amount, outcome) ==
    RouterSwap(f, f.router, amount, 0, <<token_in, f.underlying>>, caller, U64_MAX, outcome)

DepositUnwrap(f) == UnwrapLast(f)

DepositLoadVault(f) ==
    LET g == StorageGet(f, "vault")
    IN IF g.st # "run" THEN g ELSE [g EXCEPT !.vault = GetVaultAddress(g)]

\* slip: the contract itself named as beneficiary of the vault deposit
DepositVaultCallForSelf(f, caller, vaultOk) ==
    VaultDeposit(f, f.vault, f.underlying, <<f.ret>>, <<0>>, f.self, FALSE, vaultOk)

DepositVaultCall(f, caller, vaultOk) ==
    VaultDeposit(f, f.vault, f.underlying, <<f.ret>>, <<0>>, caller, FALSE, vaultOk)

\* DeFindexSimple::deposit, statement by statement
DepositBeforeRouter(bal, store, caller, token_in, amount, authed) ==
    LET f0 == NewFrame(Zap, bal, store)
        f1 == DepositRequireAuth(f0, caller, authed)
        f2 == DepositCheckAmount(f1, amount)
        f3 == DepositExtendTtl(f2)
    IN DepositLoadConfig(f3)

DepositBeforeVault(bal, store, caller, token_in, amount, authed, outcome) ==
    LET f4 == DepositBeforeRouter(bal, store, caller, token_in, amount, authed)
        f5 == DepositRouterCall(f4, caller, token_in, amount, outcome)
        f6 == DepositUnwrap(f5)
    IN DepositLoadVault(f6)

DepositFrame(bal, store, caller, token_in, amount, authed, outcome, vaultOk) ==
    LET f7 == DepositBeforeVault(bal, store, caller, token_in, amount, authed, outcome)
    IN DepositVaultCall(f7, caller, vaultOk)

-----------------------------------------------------------------------------
(* The state machine: construction, then any sequence of invocations *)

NoInvocation ==
    [op |-> "none", caller |-> NoAddr, token_in |-> NoAddr, token_out |-> NoAddr,
     amount |-> 0, authed |-> FALSE, outcome |-> NoOutcome, vaultOk |-> FALSE,
     expired |-> FALSE]

InitBalance ==
    [t \in Tokens |->
       [h \in Holders |-> IF h \in Callers THEN InitBal
                          ELSE IF h = PairAddr THEN Liquidity ELSE 0]]

NoResult == [ok |-> FALSE, val |-> 0, err |-> ""]

Init ==
    /\ ctor \in [router : {RouterAddr}, vault : {VaultAddr}, underlying : Tokens]
    /\ storage = [auth |-> SoroswapAuthConstructor(ctor.router),
                  zap |-> DeFindexSimpleConstructor(ctor.vault, ctor.router, ctor.underlying)]
    /\ balance = InitBalance
    /\ pre = InitBalance
    /\ phase = "Idle"
    /\ inv = NoInvocation
    /\ log = <<>>
    /\ decls = <<>>
    /\ result = NoResult
    /\ ninv = 0

\* the host ends the transaction: a successful invocation is committed, a
\* failed one leaves ledger and storage as they were
Commit(f, contract) ==
    /\ balance' = IF f.st = "run" THEN f.bal ELSE balance
    /\ storage' = IF f.st = "run" THEN [storage EXCEPT ![contract] = f.store] ELSE storage
    /\ pre' = balance
    /\ phase' = IF f.st = "run" THEN "Completed" ELSE "Aborted"
    /\ log' = f.log
    /\ decls' = f.issued
    /\ result' = [ok |-> f.st = "run", val |-> IF f.st = "run" THEN f.ret ELSE 0,
                  err |-> f.err]

\* one transaction invoking SoroswapAuth::swap; the router's answer is an
\* input only of an invocation that reaches the router
Swap ==
    /\ phase = "Idle"
    /\ ninv < MaxInvocations
    /\ ninv' = ninv + 1
    /\ \E caller \in Callers, token_in \in Tokens, token_out \in Tokens, amount \in Amounts,
          authed \in BOOLEAN :
        LET before == SwapBeforeRouter(balance, storage.auth, caller, token_in, token_out,
                                       amount, authed)
        IN \E outcome \in (IF before.st = "run" THEN RouterOutcomes(amount) ELSE {NoOutcome}) :
            /\ inv' = [op |-> "swap", caller |-> caller, token_in |-> token_in,
                       token_out |-> token_out, amount |-> amount, authed |-> authed,
                       outcome |-> outcome, vaultOk |-> FALSE,
                       expired |-> Expired(storage.auth)]
            /\ Commit(SwapFrame(balance, storage.auth, caller, token_in, token_out, amount,
                                authed, outcome), "auth")
            /\ UNCHANGED ctor

\* one transaction invoking DeFindexSimple::deposit; the router's and the
\* vault's answers are inputs only of an invocation that reaches them
Deposit ==
    /\ phase = "Idle"
    /\ ninv < MaxInvocations
    /\ ninv' = ninv + 1
    /\ \E caller \in Callers, token_in \in Tokens, amount \in Amounts, authed \in BOOLEAN :
        LET before == DepositBeforeRouter(balance, storage.zap, caller, token_in, amount,
                                          authed)
        IN \E outcome \in (IF before.st = "run" THEN RouterOutcomes(amount) ELSE {NoOutcome}) :
            LET atVault == DepositBeforeVault(balance, storage.zap, caller, token_in, amount,
                                              authed, outcome)
            IN \E vaultOk \in (IF atVault.st = "run" THEN BOOLEAN ELSE {FALSE}) :
                /\ inv' = [op |-> "deposit", caller |-> caller, token_in |-> token_in,
                           token_out |-> NoAddr, amount |-> amount, authed |-> authed,
                           outcome |-> outcome, vaultOk |-> vaultOk,
                           expired |-> Expired(storage.zap)]
                /\ Commit(DepositFrame(balance, storage.zap, caller, token_in, amount,
                                       authed, outcome, vaultOk), "zap")
                /\ UNCHANGED ctor

\* the transaction is over: the per-invocation call log, declarations and
\* result are gone and the contracts are idle again
Finish ==
    /\ phase # "Idle"
    /\ phase' = "Idle"
    /\ inv' = NoInvocation
    /\ log' = <<>>
    /\ decls' = <<>>
    /\ result' = NoResult
    /\ pre' = balance
    /\ UNCHANGED <<balance, storage, ctor, ninv>>

\* a lifetime period passes between two transactions: every instance that
\* was not extended gets closer to expiry
Tick ==
    /\ phase = "Idle"
    /\ ninv < MaxInvocations
    /\ ninv' = ninv + 1
    /\ storage' = [c \in DOMAIN storage |->
                     [storage[c] EXCEPT !.ttl = IF @ > 0 THEN @ - 1 ELSE 0]]
    /\ UNCHANGED <<balance, ctor, phase, inv, log, decls, result, pre>>

Next == Swap \/ Deposit \/ Finish \/ Tick

Spec == Init /\ [][Next]_vars

-----------------------------------------------------------------------------
(* Vocabulary of the properties *)

Last(s) == s[Len(s)]

\* calls into other contracts
ExternalEvents == {"transfer", "pair_for", "router_swap", "vault_deposit"}

\* positions of the log holding an event of kind ev
At(ev) == {i \in 1 .. Len(log) : log[i].ev = ev}

\* no custody transfer, no declaration, no router call, no vault call
NoExternalCalls == \A i \in 1 .. Len(log) : log[i].ev \notin ExternalEvents \cup {"declare"}

Invoked == phase # "Idle"

\* the custody transfer of swap in the log: a transfer made by the orchestrator
CustodyAt == {i \in At("transfer") : log[i].by = Orch}

-----------------------------------------------------------------------------
(* C1 *)

\* C1 (as stated): for every amount < 0, swap and deposit fail with the
\* negative-amount error and make no external call, whether or not the caller
\* supplied a proof of intent.
C1_NegativeAlwaysNegativeError ==
    (Invoked /\ inv.amount < 0) =>
        /\ ~result.ok
        /\ result.err = "NegativeNotAllowed"
        /\ NoExternalCalls

\* C1 (amended): for every amount < 0, swap and deposit fail without any
\* external call and without any change of the ledger; the error is the
\* negative-amount error when the caller supplied a proof of intent and the
\* authentication failure when not, because require_auth runs first.
C1_NegativeRejected ==
    (Invoked /\ inv.amount < 0) =>
        /\ ~result.ok
        /\ phase = "Aborted"
        /\ result.err = (IF inv.authed THEN "NegativeNotAllowed" ELSE "AuthenticationFailed")
        /\ NoExternalCalls
        /\ balance = pre

C1_Witness ==
    /\ phase = "Aborted"
    /\ inv.op = "swap"
    /\ inv.amount < 0
    /\ inv.authed
    /\ result.err = "NegativeNotAllowed"
    /\ At("check_amount") # {}

-----------------------------------------------------------------------------
(* C2 *)

\* C2: for every amount >= 0, an invocation of swap or deposit whose caller has
\* supplied no proof of intent fails with an authentication failure, and the
\* invocation makes no custody transfer, no declaration, no router call and
\* no vault call, and leaves every balance as it was.
C2_UnauthenticatedRejected ==
    (Invoked /\ inv.amount >= 0 /\ ~inv.authed) =>
        /\ ~result.ok
        /\ result.err = "AuthenticationFailed"
        /\ NoExternalCalls
        /\ balance = pre

C2_Witness ==
    /\ phase = "Aborted"
    /\ inv.op = "swap"
    /\ inv.amount > 0
    /\ ~inv.authed
    /\ result.err = "AuthenticationFailed"
    /\ \E i \in At("require_auth") : ~log[i].ok

-----------------------------------------------------------------------------
(* C3 *)

\* C3: in every invocation of swap, a successful caller authentication and a
\* successful amount check precede the custody transfer and the declaration;
\* the declaration precedes the router's swap call, and no other contract
\* call of the orchestrator lies between the declaration and that call.
C3_SwapOrdering ==
    (Invoked /\ inv.op = "swap") =>
        /\ \A i \in CustodyAt \cup At("declare") :
              /\ \E j \in At("require_auth") : j < i /\ log[j].ok
              /\ \E j \in At("check_amount") : j < i /\ log[j].ok
        /\ \A i \in At("router_swap") :
              \E j \in At("declare") :
                  /\ j < i
                  /\ \A k \in (j + 1) .. (i - 1) :
                        ~(log[k].by = Orch /\ log[k].ev \in ExternalEvents)

C3_Witness ==
    /\ phase = "Completed"
    /\ inv.op = "swap"
    /\ CustodyAt # {}
    /\ At("declare") # {}
    /\ At("router_swap") # {}

-----------------------------------------------------------------------------
(* C4 *)

\* C4 (as stated): after a successful swap the caller's token_in balance has
\* decreased by exactly amount and the pair's token_in balance has increased
\* by exactly amount.
C4_ExactlyAmountMoved ==
    (phase = "Completed" /\ inv.op = "swap") =>
        /\ balance[inv.token_in][inv.caller] = pre[inv.token_in][inv.caller] - inv.amount
        /\ balance[inv.token_in][PairAddr] = pre[inv.token_in][PairAddr] + inv.amount

-----------------------------------------------------------------------------
(* C5 *)

\* C5: a successful swap or deposit returns exactly the last element of the
\* amounts sequence the router returned in that invocation (which is then
\* non-empty), whatever the vault answered.
C5_ReturnsLastAmount ==
    (phase = "Completed") =>
        /\ inv.outcome.ok
        /\ inv.outcome.amounts # <<>>
        /\ result.val = Last(inv.outcome.amounts)

C5_Witness ==
    /\ phase = "Completed"
    /\ inv.op = "deposit"
    /\ Len(inv.outcome.amounts) = 2
    /\ inv.outcome.amounts[1] # inv.outcome.amounts[2]
    /\ result.val = inv.outcome.amounts[2]
    /\ At("vault_deposit") # {}

-----------------------------------------------------------------------------
(* C6 *)

\* C6: in deposit, a failed router swap call makes the deposit fail, and a
\* vault deposit call is always preceded by a successful router swap call of
\* the same invocation.
C6_NoVaultCallWithoutSwap ==
    (Invoked /\ inv.op = "deposit") =>
        /\ (\E j \in At("router_swap") : ~log[j].ok) =>
              (~result.ok /\ At("vault_deposit") = {})
        /\ \A i \in At("vault_deposit") :
              \E j \in At("router_swap") : j < i /\ log[j].ok

C6_Witness ==
    /\ phase = "Aborted"
    /\ inv.op = "deposit"
    /\ \E j \in At("router_swap") : ~log[j].ok
    /\ At("vault_deposit") = {}

-----------------------------------------------------------------------------
(* C7 *)

-----------------------------------------------------------------------------
(* C8 *)

\* the call the declaration of the last swap is meant to cover
IntendedCall ==
    [contract |-> inv.token_in, fn_name |-> "transfer",
     args |-> <<inv.caller, PairAddr, inv.amount>>]

\* c and every call that differs from c in one field
SingleFieldVariants(c) ==
    {[c EXCEPT !.contract = t] : t \in Tokens}
      \cup {[c EXCEPT !.fn_name = n] : n \in {"transfer", "transfer_from", "burn"}}
      \cup {[c EXCEPT !.args[1] = h] : h \in Holders}
      \cup {[c EXCEPT !.args[2] = h] : h \in Holders}
      \cup {[c EXCEPT !.args[3] = a] : a \in 0 .. (MaxAmount + 1)}

\* a ledger where no transfer fails for lack of funds
RichBalance == [t \in Tokens |-> [h \in Holders |-> MaxAmount + 1]]

\* the ledger's verdict on transfer call c made by the router when d is the
\* only authorization at hand
LedgerAccepts(d, c) ==
    LET f == [NewFrame(Orch, RichBalance, EmptyStore) EXCEPT !.outstanding = {d}]
    IN LedgerTransfer(f, RouterAddr, c.contract, c.args[1], c.args[2], c.args[3]).st = "run"

-----------------------------------------------------------------------------
(* C9 *)

\* C9: in every reachable state, whatever invocations of swap and deposit
\* succeeded or failed before, the stored router address of soroswap-auth and
\* the stored vault, router and underlying-asset addresses of defindex-zap
\* equal the values given to the constructors.
C9_ConfigurationImmutable ==
    /\ storage.auth.router = ctor.router
    /\ storage.zap.vault = ctor.vault
    /\ storage.zap.router = ctor.router
    /\ storage.zap.underlying = ctor.underlying

C9_Witness ==
    /\ phase = "Completed"
    /\ inv.op = "swap"
    /\ ninv = 2
    /\ storage.auth.router = ctor.router
    /\ \E i \in At("router_swap") : log[i].contract = ctor.router

-----------------------------------------------------------------------------
(* C10 *)

\* C10: an invocation of swap or deposit in which any step failed (negative
\* amount, authentication, authorization, router, vault or ledger) is aborted
\* as a whole: it reports failure and every balance equals its value before
\* the invocation; in particular a router failure after the custody transfer
\* leaves the caller's and the orchestrator's balances as they were.
C10_FailureAbortsEverything ==
    (Invoked /\ (~result.ok \/ \E i \in 1 .. Len(log) : ~log[i].ok)) =>
        /\ phase = "Aborted"
        /\ ~result.ok
        /\ balance = pre

C10_Witness ==
    /\ phase = "Aborted"
    /\ inv.op = "swap"
    /\ inv.amount > 0
    /\ \E i \in CustodyAt : log[i].ok
    /\ \E j \in At("router_swap") : ~log[j].ok
    /\ balance[inv.token_in][inv.caller] = pre[inv.token_in][inv.caller]
    /\ balance[inv.token_in][Orch] = pre[inv.token_in][Orch]

-----------------------------------------------------------------------------
(* C11 *)

\* the contract the last invocation entered
Self == IF inv.op = "swap" THEN Orch ELSE Zap

\* the steps the entered contract took itself, in order
OwnEvents == SelectSeq(log, LAMBDA e : e.by = Self)

OwnSteps == [i \in 1 .. Len(OwnEvents) |-> OwnEvents[i].ev]

IsPrefix(s, t) == Len(s) <= Len(t) /\ \A i \in 1 .. Len(s) : s[i] = t[i]

\* the statements of swap and of deposit in source order
SwapSteps ==
    <<"require_auth", "check_amount", "extend_ttl", "transfer", "config_read",
      "pair_for", "declare", "router_swap">>

DepositSteps ==
    <<"require_auth", "check_amount", "extend_ttl", "config_read", "config_read",
      "router_swap", "config_read", "vault_deposit">>

\* C11 (as stated): in every invocation the amount validation is the first
\* step and the caller authentication follows it, and in swap and in deposit
\* alike a delegated-authorization grant precedes the router call.
C11_ValidationFirstGrantAlways ==
    Invoked =>
        /\ OwnSteps # <<>> /\ OwnSteps[1] = "check_amount"
        /\ \A i \in At("router_swap") : \E j \in At("declare") : j < i

\* C11 (amended): every invocation authenticates the caller first, validates
\* the amount second and extends the time-to-live third; swap then takes
\* custody, reads the router, asks the pair, grants the delegated
\* authorization and calls the router; deposit takes no custody and grants no
\* delegated authorization: it reads its configuration, calls the router and
\* then the vault.  Every step but the last has succeeded, an invocation ends
\* Completed or Aborted, and a Completed one has taken all its steps.
C11_StepSequence ==
    Invoked =>
        LET expected == IF inv.op = "swap" THEN SwapSteps ELSE DepositSteps
            own == OwnEvents
            steps == [i \in 1 .. Len(own) |-> own[i].ev]
        IN /\ phase \in {"Completed", "Aborted"}
           /\ steps # <<>>
           /\ IsPrefix(steps, expected)
           /\ \A i \in 1 .. (Len(own) - 1) : own[i].ok
           /\ (phase = "Completed") => (steps = expected /\ own[Len(own)].ok)
           /\ (inv.op = "deposit") => (At("declare") = {} /\ decls = <<>>)

C11_Witness ==
    /\ phase = "Completed"
    /\ inv.op = "deposit"
    /\ OwnSteps = DepositSteps
    /\ At("declare") = {}
    /\ At("router_swap") # {}

-----------------------------------------------------------------------------
(* C12 *)

-----------------------------------------------------------------------------
(* C13 *)

\* the transfers the router made itself in the last invocation
RouterTransfers == {i \in At("transfer") : log[i].by = ctor.router}

-----------------------------------------------------------------------------
(* C14 *)

\* two successive transfers, each matching declaration d, made by the router
\* when d is the only authorization at hand: the status of the first and of
\* the second
UsedTwice(d) ==
    LET f == [NewFrame(Orch, RichBalance, EmptyStore) EXCEPT !.outstanding = {d}]
        g1 == LedgerTransfer(f, RouterAddr, d.contract, d.args[1], d.args[2], d.args[3])
        g2 == LedgerTransfer(g1, RouterAddr, d.contract, d.args[1], d.args[2], d.args[3])
    IN <<g1.st, g2.st, g2.err>>

-----------------------------------------------------------------------------
(* C15 *)

\* C15: in every invocation each read of the configuration is preceded by a
\* successful extension of the instance time-to-live made by the same
\* contract, after which the time-to-live stands at its full value; an
\* invocation that fails authentication or amount validation neither extends
\* the time-to-live nor reads the configuration.
C15_TtlExtendedBeforeRead ==
    Invoked =>
        /\ \A i \in At("config_read") :
              \E j \in At("extend_ttl") : j < i /\ log[j].ok /\ log[j].by = log[i].by
        /\ \A j \in At("extend_ttl") :
              \A i \in At("require_auth") \cup At("check_amount") : i < j /\ log[i].ok
        /\ (phase = "Completed") =>
              /\ At("extend_ttl") # {}
              /\ storage[IF inv.op = "swap" THEN "auth" ELSE "zap"].ttl = InstanceBump
        /\ (result.err \in {"AuthenticationFailed", "NegativeNotAllowed"}) =>
              (At("extend_ttl") = {} /\ At("config_read") = {})

C15_Witness ==
    /\ phase = "Completed"
    /\ inv.op = "deposit"
    /\ Cardinality(At("config_read")) = 3
    /\ \E j \in At("extend_ttl") :
          /\ log[j].ok
          /\ log[j].by = Zap
          /\ \A i \in At("config_read") : j < i

-----------------------------------------------------------------------------
(* C16 *)

\* the path the invocation under way hands to the router
ExpectedPath ==
    IF inv.op = "swap" THEN <<inv.token_in, inv.token_out>>
    ELSE <<inv.token_in, ctor.underlying>>

\* C16: every router swap call issued by swap or deposit is addressed to the
\* configured router after the amount has passed validation, and carries the
\* invocation's amount as amount_in, 0 as minimum output, a path of exactly
\* two elements ([token_in, token_out] for swap, [token_in, stored underlying
\* asset] for deposit), the original caller (never an orchestrator) as
\* recipient, and the maximum representable deadline.
C16_RouterCallArguments ==
    /\ Cardinality(At("router_swap")) <= 1
    /\ \A i \in At("router_swap") :
          /\ log[i].contract = ctor.router
          /\ log[i].fn = "swap_exact_tokens_for_tokens"
          /\ log[i].args = <<inv.amount, 0, ExpectedPath, inv.caller, U64_MAX>>
          /\ Len(log[i].args[3]) = 2
          /\ log[i].args[4] \in Callers
          /\ log[i].args[4] \notin {Orch, Zap}
          /\ inv.amount >= 0
          /\ \E j \in At("check_amount") : j < i /\ log[j].ok

C16_Witness ==
    /\ phase = "Completed"
    /\ inv.op = "deposit"
    /\ inv.amount > 0
    /\ inv.token_in # ctor.underlying
    /\ \E i \in At("router_swap") :
          /\ log[i].ok
          /\ log[i].args = <<inv.amount, 0, <<inv.token_in, ctor.underlying>>, inv.caller, U64_MAX>>

-----------------------------------------------------------------------------
(* C17 *)

\* C17: each of the two validators rejects an amount exactly when it is
\* negative; in an authenticated invocation the validation step fails, with
\* the negative-amount error, exactly when the amount is negative; and an
\* authenticated invocation with amount 0 on a live configuration goes on to
\* the custody transfer (swap) or to the router call (deposit).
C17_RejectsIffNegative ==
    /\ \A a \in Amounts :
          /\ (CheckNonnegativeAmount(a) = "NegativeNotAllowed") <=> (a < 0)
          /\ (ZapCheckNonnegativeAmount(a) = "NegativeNotAllowed") <=> (a < 0)
          /\ CheckNonnegativeAmount(a) \in {"Ok", "NegativeNotAllowed"}
          /\ ZapCheckNonnegativeAmount(a) \in {"Ok", "NegativeNotAllowed"}
    /\ (Invoked /\ inv.authed) =>
          /\ Cardinality(At("check_amount")) = 1
          /\ \A i \in At("check_amount") : log[i].ok <=> (inv.amount >= 0)
          /\ (result.err = "NegativeNotAllowed") <=> (inv.amount < 0)
    /\ (Invoked /\ inv.authed /\ inv.amount = 0 /\ ~inv.expired) =>
          /\ inv.op = "swap" =>
                \E i \in At("transfer") :
                    /\ log[i].by = Orch
                    /\ log[i].args = <<inv.caller, Orch, 0>>
                    /\ log[i].ok
          /\ inv.op = "deposit" =>
                \E i \in At("router_swap") : log[i].by = Zap /\ log[i].args[1] = 0

C17_Witness ==
    /\ Invoked
    /\ inv.op = "deposit"
    /\ inv.authed
    /\ inv.amount = 0
    /\ \E i \in At("check_amount") : log[i].ok
    /\ \E i \in At("router_swap") : log[i].args[1] = 0

-----------------------------------------------------------------------------
(* C18 *)

\* C18 (as stated): the soroswap-auth orchestrator retains no funds: after
\* any sequence of successful swap invocations its balance of every asset is
\* the one it had before the sequence, every unit taken into custody having
\* been forwarded to the pair within the same invocation.
C18_OrchestratorRetainsNothing ==
    /\ \A t \in Tokens : balance[t][Orch] = InitBalance[t][Orch]
    /\ (phase = "Completed" /\ inv.op = "swap") =>
          balance[inv.token_in][Orch] = pre[inv.token_in][Orch]

-----------------------------------------------------------------------------
(* C19 *)

\* C19: the defindex-zap orchestrator never holds funds: in every reachable
\* state its balance of every asset is the initial one (0), and no transfer,
\* router call or vault call of any invocation names it as sender, recipient
\* or beneficiary; the swap output goes to the caller and the vault deposit is
\* made for the caller.
C19_ZapNeverHoldsFunds ==
    /\ \A t \in Tokens : balance[t][Zap] = 0
    /\ \A i \in 1 .. Len(log) :
          LET e == log[i]
          IN /\ (e.ev = "transfer") => (e.args[1] # Zap /\ e.args[2] # Zap)
             /\ (e.ev = "router_swap") => (e.args[4] # Zap)
             /\ (e.ev = "vault_deposit") => (e.args[3] # Zap)
             /\ (inv.op = "deposit") =>
                   /\ (e.ev = "router_swap") => (e.args[4] = inv.caller)
                   /\ (e.ev = "vault_deposit") => (e.args[3] = inv.caller)
                   /\ (e.ev = "transfer") => (e.by # Zap)

C19_Witness ==
    /\ phase = "Completed"
    /\ inv.op = "deposit"
    /\ inv.amount > 0
    /\ result.val > 0
    /\ \E i \in At("vault_deposit") : log[i].ok /\ log[i].args[3] = inv.caller
    /\ \E i \in At("transfer") : log[i].ok /\ log[i].args[2] = VaultAddr /\ log[i].args[3] > 0
    /\ \A t \in Tokens : balance[t][Zap] = 0

====
